---------------------------- MODULE Spec2Model ----------------------------
(***************************************************************************)
(* Model of modelo.py: the SEIR derivative function `model`, the           *)
(* integration call `odeint(model, [S0, E0, I0, R0], t, args=...)`, the    *)
(* unpacking `S, E, I, R = solution.T` and the nine pyplot calls.          *)
(*                                                                         *)
(* Numbers.  The script computes in binary floating point.  Here a real    *)
(* number x is the integer nearest to x * Unit (fixed point, resolution    *)
(* 1e-8); sums and differences are exact and every product is rounded      *)
(* (towards zero) to the resolution, as every floating-point product is    *)
(* rounded to its precision.  Times use the coarser resolution 1/TUnit.    *)
(*                                                                         *)
(* Integrator.  odeint is scipy's wrapper of LSODA and is not part of the  *)
(* repository.  What the model keeps of it is its interface: row 0 of the  *)
(* result is y0, the solver advances from one requested output time to     *)
(* the next by evaluating the callback, one row is stored per requested    *)
(* time, a solver failure (istate < 0) ends the loop with a warning and    *)
(* the array is returned, an exception leaves the call.  The solver's      *)
(* variable-order, variable-step method is abstracted to one explicit      *)
(* Euler step per output interval.                                         *)
(***************************************************************************)
EXTENDS Integers, Sequences, FiniteSets, TLC

VARIABLES y0, args, tpts, pc, k, ycur, dydt, solution, istate, warnings,
          cols, calls

vars == <<y0, args, tpts, pc, k, ycur, dydt, solution, istate, warnings,
          cols, calls>>

---------------------------------------------------------------------------
(* Fixed-point arithmetic                                                  *)

Limb == 100 * 100
Unit == Limb * Limb
TUnit == 1000 * 1000

Abs(a) == IF a < 0 THEN -a ELSE a

Pow10(d) == IF d = 0 THEN 1
            ELSE IF d = 1 THEN 10
            ELSE IF d = 2 THEN 100
            ELSE IF d = 3 THEN 1000
            ELSE IF d = 4 THEN 10000
            ELSE 100000

\* the literal n * 10^-d, d <= 5
Dec(n, d) == n * (Unit \div Pow10(d))

\* floor(a * b / Unit) for a, b >= 0, without leaving 32 bits
MulNN(a, b) ==
    LET a1 == a \div Limb
        a0 == a % Limb
        b1 == b \div Limb
        b0 == b % Limb
    IN  a1 * b1 + ((a1 * b0 + a0 * b1 + ((a0 * b0) \div Limb)) \div Limb)

\* the product a * b, rounded towards zero
Mul(a, b) ==
    IF (a < 0) = (b < 0) THEN MulNN(Abs(a), Abs(b))
    ELSE -MulNN(Abs(a), Abs(b))

Sum4(y) == y[1] + y[2] + y[3] + y[4]

---------------------------------------------------------------------------
(* Module-level values of the script                                       *)

\* beta, sigma, gamma, mu (lines 55-58), as passed in args=(...)
ScriptArgs == <<Dec(4091, 4), Dec(1818, 4), Dec(1428, 4), Dec(25, 4)>>

S0 == Dec(99991, 5)
E0 == Dec(1, 3)
I0 == Dec(8, 5)
R0 == Dec(0, 1)

\* a misordered list literal
ScriptY0_misordered == <<E0, S0, I0, R0>>

\* [S0, E0, I0, R0], the initial condition passed to odeint
ScriptY0 == <<S0, E0, I0, R0>>

\* np.linspace(start, stop, num): num points, the last one stop itself
linspace(start, stop, num) ==
    LET step == (stop - start) \div (num - 1)
    IN  [i \in 1..num |-> IF i = num THEN stop ELSE start + (i - 1) * step]

\* t = np.linspace(0, 200, 1000)
ScriptT == linspace(0, 200 * TUnit, 1000)

---------------------------------------------------------------------------
(* Variants of model with one slip each, used to show that the properties  *)
(* below depend on the lines of model.                                     *)

\* returns the derivatives in the order [dE, dS, dI, dR]
model_misordered(y, t, beta, sigma, gamma, mu) ==
    LET S == y[1]
        E == y[2]
        I == y[3]
        R == y[4]
        dSdt == mu - Mul(Mul(beta, S), I) - Mul(mu, S)
        dEdt == Mul(Mul(beta, S), I) - Mul(sigma + mu, E)
        dIdt == Mul(sigma, E) - Mul(gamma + mu, I)
        dRdt == Mul(gamma, I) - Mul(mu, R)
    IN  <<dEdt, dSdt, dIdt, dRdt>>

\* dSdt without the birth term mu
model_no_birth(y, t, beta, sigma, gamma, mu) ==
    LET S == y[1]
        E == y[2]
        I == y[3]
        R == y[4]
        dSdt == 0 - Mul(Mul(beta, S), I) - Mul(mu, S)
        dEdt == Mul(Mul(beta, S), I) - Mul(sigma + mu, E)
        dIdt == Mul(sigma, E) - Mul(gamma + mu, I)
        dRdt == Mul(gamma, I) - Mul(mu, R)
    IN  <<dSdt, dEdt, dIdt, dRdt>>

\* dRdt without the death term mu * R
model_no_death_R(y, t, beta, sigma, gamma, mu) ==
    LET S == y[1]
        E == y[2]
        I == y[3]
        R == y[4]
        dSdt == mu - Mul(Mul(beta, S), I) - Mul(mu, S)
        dEdt == Mul(Mul(beta, S), I) - Mul(sigma + mu, E)
        dIdt == Mul(sigma, E) - Mul(gamma + mu, I)
        dRdt == Mul(gamma, I)
    IN  <<dSdt, dEdt, dIdt, dRdt>>

\* dEdt with the outflow (sigma + mu) * E added instead of subtracted
model_dE_sign(y, t, beta, sigma, gamma, mu) ==
    LET S == y[1]
        E == y[2]
        I == y[3]
        R == y[4]
        dSdt == mu - Mul(Mul(beta, S), I) - Mul(mu, S)
        dEdt == Mul(Mul(beta, S), I) + Mul(sigma + mu, E)
        dIdt == Mul(sigma, E) - Mul(gamma + mu, I)
        dRdt == Mul(gamma, I) - Mul(mu, R)
    IN  <<dSdt, dEdt, dIdt, dRdt>>

\* dSdt with the infection term beta * S * I added instead of subtracted
model_dS_sign(y, t, beta, sigma, gamma, mu) ==
    LET S == y[1]
        E == y[2]
        I == y[3]
        R == y[4]
        dSdt == mu + Mul(Mul(beta, S), I) - Mul(mu, S)
        dEdt == Mul(Mul(beta, S), I) - Mul(sigma + mu, E)
        dIdt == Mul(sigma, E) - Mul(gamma + mu, I)
        dRdt == Mul(gamma, I) - Mul(mu, R)
    IN  <<dSdt, dEdt, dIdt, dRdt>>

\* the birth term reads the module-level mu instead of the parameter
model_global_mu(y, t, beta, sigma, gamma, mu) ==
    LET S == y[1]
        E == y[2]
        I == y[3]
        R == y[4]
        dSdt == ScriptArgs[4] - Mul(Mul(beta, S), I) - Mul(mu, S)
        dEdt == Mul(Mul(beta, S), I) - Mul(sigma + mu, E)
        dIdt == Mul(sigma, E) - Mul(gamma + mu, I)
        dRdt == Mul(gamma, I) - Mul(mu, R)
    IN  <<dSdt, dEdt, dIdt, dRdt>>

\* a transmission rate that grows with time: beta * (1 + t)
model_time_dependent(y, t, beta, sigma, gamma, mu) ==
    LET S == y[1]
        E == y[2]
        I == y[3]
        R == y[4]
        bt == beta + Mul(beta, t)
        dSdt == mu - Mul(Mul(bt, S), I) - Mul(mu, S)
        dEdt == Mul(Mul(bt, S), I) - Mul(sigma + mu, E)
        dIdt == Mul(sigma, E) - Mul(gamma + mu, I)
        dRdt == Mul(gamma, I) - Mul(mu, R)
    IN  <<dSdt, dEdt, dIdt, dRdt>>

---------------------------------------------------------------------------
(* model(y, t, beta, sigma, gamma, mu)                                     *)

model(y, t, beta, sigma, gamma, mu) ==
    LET S == y[1]
        E == y[2]
        I == y[3]
        R == y[4]
        dSdt == mu - Mul(Mul(beta, S), I) - Mul(mu, S)
        dEdt == Mul(Mul(beta, S), I) - Mul(sigma + mu, E)
        dIdt == Mul(sigma, E) - Mul(gamma + mu, I)
        dRdt == Mul(gamma, I) - Mul(mu, R)
    IN  <<dSdt, dEdt, dIdt, dRdt>>

---------------------------------------------------------------------------
(* odeint                                                                  *)

\* func(y, t, *args): how odeint calls the callback
func(y, t) == model(y, t, args[1], args[2], args[3], args[4])

\* the solver's advance over an output interval of length dt (in 1/TUnit)
Advance(y, dt, f) ==
    LET h == dt * (Unit \div TUnit)
    IN  [i \in 1..4 |-> y[i] + Mul(h, f[i])]

\* rows the solver never wrote (the output array is allocated uninitialised)
Garbage == {<<0, 0, 0, 0>>, <<-Unit, 2 * Unit, 0, 0>>}

\* the call wrapped in a handler that swallows the exception
AfterRaise_caught == "unpack"

\* where control goes when the integration call raises: nothing catches it
AfterRaise == "aborted"

\* solution.T
Transpose(sol) == [c \in 1..4 |-> [i \in 1..Len(sol) |-> sol[i][c]]]

\* the pyplot calls of lines 74-82, in order
PlotScript ==
    << <<"plot", 1, "Suscetiveis">>, <<"plot", 2, "Expostos">>,
       <<"plot", 3, "Infectados">>, <<"plot", 4, "Recuperados">>,
       <<"xlabel", 0, "Tempo">>, <<"ylabel", 0, "Fracao da populacao">>,
       <<"title", 0, "Modelo SEIR da Epidemiologia com Demografia">>,
       <<"legend", 0, "">>, <<"show", 0, "">> >>

Zero4 == <<0, 0, 0, 0>>

InitRest ==
    /\ pc = "odeint"
    /\ k = 0
    /\ ycur = Zero4
    /\ dydt = Zero4
    /\ solution = <<>>
    /\ istate = "none"
    /\ warnings = <<>>
    /\ cols = <<>>
    /\ calls = <<>>

Init ==
    /\ y0 = ScriptY0
    /\ args = ScriptArgs
    /\ tpts = ScriptT
    /\ InitRest

\* line 70: the call is entered; row 0 of the result is the initial condition
odeint_enter ==
    /\ pc = "odeint"
    /\ pc' = "func"
    /\ k' = 1
    /\ ycur' = y0
    /\ solution' = <<y0>>
    /\ istate' = "running"
    /\ UNCHANGED <<y0, args, tpts, dydt, warnings, cols, calls>>

\* the solver evaluates the callback at the current point
model_call ==
    /\ pc = "func"
    /\ dydt' = func(ycur, tpts[k])
    /\ pc' = "lsoda"
    /\ UNCHANGED <<y0, args, tpts, k, ycur, solution, istate, warnings, cols, calls>>

\* the solver reaches the next output time and stores the row
lsoda_step ==
    /\ pc = "lsoda"
    /\ LET yn == Advance(ycur, tpts[k + 1] - tpts[k], dydt)
       IN  /\ ycur' = yn
           /\ solution' = Append(solution, yn)
    /\ k' = k + 1
    /\ IF k + 1 = Len(tpts)
       THEN pc' = "unpack" /\ istate' = "ok"
       ELSE pc' = "func" /\ istate' = istate
    /\ UNCHANGED <<y0, args, tpts, dydt, warnings, cols, calls>>

\* the solver gives up (istate < 0): odeint warns and returns the array,
\* whose remaining rows were never written
lsoda_fail ==
    /\ pc = "lsoda"
    /\ \E g \in Garbage :
         solution' = solution \o [i \in 1..(Len(tpts) - k) |-> g]
    /\ istate' = "noconv"
    /\ warnings' = Append(warnings, "ODEintWarning")
    /\ pc' = "unpack"
    /\ UNCHANGED <<y0, args, tpts, k, ycur, dydt, cols, calls>>

\* an exception leaves the integration call
odeint_raise ==
    /\ pc = "lsoda"
    /\ istate' = "raised"
    /\ pc' = AfterRaise
    /\ UNCHANGED <<y0, args, tpts, k, ycur, dydt, solution, warnings, cols, calls>>

\* line 72: S, E, I, R = solution.T
unpack ==
    /\ pc = "unpack"
    /\ cols' = Transpose(solution)
    /\ pc' = "plot"
    /\ UNCHANGED <<y0, args, tpts, k, ycur, dydt, solution, istate, warnings, calls>>

\* lines 74-82, one pyplot call at a time
plt_call ==
    /\ pc = "plot"
    /\ calls' = Append(calls, PlotScript[Len(calls) + 1])
    /\ pc' = IF Len(calls) + 1 = Len(PlotScript) THEN "done" ELSE "plot"
    /\ UNCHANGED <<y0, args, tpts, k, ycur, dydt, solution, istate, warnings, cols>>

Next ==
    \/ odeint_enter
    \/ model_call
    \/ lsoda_step
    \/ lsoda_fail
    \/ odeint_raise
    \/ unpack
    \/ plt_call

Spec == Init /\ [][Next]_vars

---------------------------------------------------------------------------
(* The integration over inputs drawn from bounded sets: initial states     *)
(* with components j/YParts, rates j/RParts, a grid of NGrid points half   *)
(* a time unit apart; and the script's own inputs.  Rates are at most 1    *)
(* and the spacing is 1/2, so that step * rate <= 1: the explicit step     *)
(* stays in the range where it follows the solution, as the solver's       *)
(* error control keeps its own steps.                                      *)

NGrid == 4
YParts == 2
RParts == 2

YVals == {(j * Unit) \div YParts : j \in 0..YParts}
RVals == {(j * Unit) \div RParts : j \in 0..RParts}

\* non-negative states whose total is 1 - 1/YParts, 1 or 1 + 1/YParts
InitStates ==
    {y \in [1..4 -> YVals] :
        \E j \in {YParts - 1, YParts, YParts + 1} :
            Sum4(y) = (j * Unit) \div YParts}

InitInputs ==
    /\ \/ /\ y0 \in InitStates
          /\ args \in [1..4 -> RVals]
          /\ tpts = linspace(0, (NGrid - 1) * (TUnit \div 2), NGrid)
       \/ /\ y0 = ScriptY0
          /\ args = ScriptArgs
          /\ tpts = ScriptT
    /\ InitRest

NextSolve ==
    \/ odeint_enter
    \/ model_call
    \/ lsoda_step

SpecInputs == InitInputs /\ [][NextSolve]_vars

---------------------------------------------------------------------------
(* Properties                                                              *)

\* the integration call has returned an array
Returned == pc \in {"unpack", "plot", "done"}

\* every row of solution so far was computed by the solver
Computed == istate \in {"running", "ok"}

\* a derivative has just been returned for the point ycur
Called == pc = "lsoda"

Last == solution[Len(solution)]
Prev == solution[Len(solution) - 1]
Stepped == Computed /\ Len(solution) >= 2

IsScriptRun == y0 = ScriptY0 /\ args = ScriptArgs /\ tpts = ScriptT

NonIncr(s, a, b) == \A i \in a..(b - 1) : s[i + 1] <= s[i]
NonDecr(s, a, b) == \A i \in a..(b - 1) : s[i + 1] >= s[i]

\* C1: whenever model has been called on a state (S,E,I,R) with parameters
\* (beta,sigma,gamma,mu), what it returned is, in the order dS, dE, dI, dR,
\* mu - beta*S*I - mu*S, beta*S*I - (sigma+mu)*E, sigma*E - (gamma+mu)*I,
\* gamma*I - mu*R.
C1_DerivativeVector ==
    Called =>
        /\ Len(dydt) = 4
        /\ dydt[1] = args[4] - Mul(Mul(args[1], ycur[1]), ycur[3])
                             - Mul(args[4], ycur[1])
        /\ dydt[2] = Mul(Mul(args[1], ycur[1]), ycur[3])
                             - Mul(args[2] + args[4], ycur[2])
        /\ dydt[3] = Mul(args[2], ycur[2]) - Mul(args[3] + args[4], ycur[3])
        /\ dydt[4] = Mul(args[3], ycur[3]) - Mul(args[4], ycur[4])

C1_Witness ==
    /\ Called
    /\ \A i \in 1..4 : args[i] > 0 /\ dydt[i] # 0
    /\ ycur[1] > 0 /\ ycur[2] > 0 /\ ycur[3] > 0

\* C2: when the initial state sums to 1 (and the rates are non-negative),
\* every computed row of the trajectory sums to 1 within 1e-6.
C2_SumStaysOne ==
    (Computed /\ Sum4(y0) = Unit /\ \A i \in 1..4 : args[i] >= 0) =>
        Abs(Sum4(Last) - Unit) <= Unit \div 1000000

C2_Witness ==
    /\ Computed /\ Sum4(y0) = Unit
    /\ Len(solution) = Len(tpts)
    /\ \A i \in 1..4 : args[i] > 0
    /\ Last # y0

\* C3 as stated: with beta = 0, from one sampled time to the next neither E
\* nor I increases.
C3_Original ==
    (Stepped /\ args[1] = 0) => (Last[2] <= Prev[2] /\ Last[3] <= Prev[3])

\* C3 as amended: with beta = 0, from one sampled time to the next neither
\* E nor the sum E + I increases (I alone may rise while sigma*E feeds it).
C3_NoNewExposure ==
    (Stepped /\ args[1] = 0) =>
        (Last[2] <= Prev[2] /\ Last[2] + Last[3] <= Prev[2] + Prev[3])

C3_Witness ==
    /\ Stepped /\ args[1] = 0
    /\ Last[2] < Prev[2]
    /\ Last[3] > Prev[3]

\* C4: for the script's inputs every computed value of S, E, I and R lies
\* in [0, 1].
C4_WithinUnitInterval ==
    (Computed /\ IsScriptRun) => \A c \in 1..4 : 0 <= Last[c] /\ Last[c] <= Unit

C4_Witness ==
    /\ IsScriptRun /\ pc = "done" /\ istate = "ok"
    /\ Len(solution) = 1000

C6_ZeroRatesConstant ==
    (args = Zero4) =>
        /\ Called => dydt = Zero4
        /\ Computed => Last = y0

C6_Witness ==
    /\ args = Zero4 /\ istate = "ok"
    /\ Len(solution) = Len(tpts)
    /\ \A i \in 1..3 : y0[i] > 0

Series(c) == cols[c]
NPts == Len(tpts)

\* the I series rises to a peak and is non-increasing from there on
IShape ==
    \E p \in 2..(NPts - 1) :
        /\ NonDecr(Series(3), 1, p)
        /\ Series(3)[p] > Series(3)[1]
        /\ NonIncr(Series(3), p, NPts)
        /\ Series(3)[NPts] < Series(3)[p]

\* C7 as stated: for the script's inputs I rises from 0.00008 to a peak and
\* is non-increasing after it, and S is non-increasing over the whole
\* horizon and ends below 1.
C7_Original ==
    (IsScriptRun /\ istate = "ok" /\ pc = "done") =>
        /\ Series(3)[1] = I0
        /\ IShape
        /\ NonIncr(Series(1), 1, NPts)
        /\ Series(1)[NPts] < Unit

\* C7 as amended: for the script's inputs I rises from 0.00008 to a peak
\* and is non-increasing after it; S is non-increasing from its initial
\* value down to a minimum inside the horizon and non-decreasing from there
\* to t = 200, where it is above the minimum, and never exceeds its initial
\* value, which is below 1.
C7_Shape ==
    (IsScriptRun /\ istate = "ok" /\ pc = "done") =>
        /\ Series(3)[1] = I0
        /\ IShape
        /\ \E m \in 2..(NPts - 1) :
              /\ NonIncr(Series(1), 1, m)
              /\ Series(1)[m] < Series(1)[1]
              /\ NonDecr(Series(1), m, NPts)
              /\ Series(1)[NPts] > Series(1)[m]
        /\ \A i \in 1..NPts : Series(1)[i] <= Series(1)[1]
        /\ Series(1)[1] < Unit

C7_Witness ==
    /\ IsScriptRun /\ istate = "ok" /\ pc = "done"
    /\ Len(cols) = 4 /\ Len(Series(1)) = 1000

Rerun(n) ==
    IF n = 1 THEN y0
    ELSE Advance(solution[n - 1], tpts[n] - tpts[n - 1],
                 func(solution[n - 1], tpts[n - 1]))

C9_State ==
    /\ Called =>
          \A tt \in {tpts[1], tpts[NPts], tpts[k] + 1} : func(ycur, tt) = dydt
    /\ Computed => Last = Rerun(Len(solution))

C10_TotalRelaxesToOne ==
    /\ Called =>
          Abs(Sum4(dydt) - Mul(args[4], Unit - Sum4(ycur))) <= 4
    /\ Stepped =>
          Abs(Sum4(Last) - Unit) <= Abs(Sum4(Prev) - Unit) + 6
    /\ (IsScriptRun /\ Computed) =>
          /\ Sum4(solution[1]) = Dec(100099, 5)
          /\ Sum4(Last) > Unit
          /\ Stepped => Sum4(Last) < Sum4(Prev)

C10_Witness ==
    /\ IsScriptRun /\ istate = "ok"
    /\ Len(solution) = 1000
    /\ Sum4(Last) < Sum4(solution[1])

=============================================================================
